---------------------------- MODULE Spec2Model ----------------------------
(***************************************************************************)
(* Inventory chatbot: the intent matcher (SQLQueryMapper), the session     *)
(* store (SessionManager), the completion client (OpenAIService) and the   *)
(* orchestrator (ChatService.process_message).                             *)
(*                                                                         *)
(* Python strings are TLA+ strings.  Python dict objects that are shared   *)
(* by reference (the turns of a session) live in a heap and are named by   *)
(* their reference, so that writing through one alias is seen through the  *)
(* other.                                                                  *)
(***************************************************************************)
EXTENDS Integers, Sequences, FiniteSets, TLC

VARIABLES
    sessions,   \* SessionManager.sessions: session id -> list of turn refs
    heap,       \* the turn dict objects: ref -> [role, content]
    calls,      \* the process_message invocations, in the order they began
    log,        \* history: ref -> what add_message was called with, and by whom
    query,      \* the message handed to match_intent (matcher specification)
    matched,    \* what match_intent returned for it
    op,         \* the last call made on the session store itself (store specification)
    chat_service \* the module-level ChatService() of the application

vars == <<sessions, heap, calls, log, query, matched, op, chat_service>>

----------------------------------------------------------------------------
(* Python values that may be None.                                         *)

PyStr(s) == [t |-> "str", v |-> s]
PyNone == [t |-> "NoneType", v |-> ""]
PyInt(n) == [t |-> "int", n |-> n]
PyNoInt == [t |-> "NoneType", n |-> 0]

----------------------------------------------------------------------------
(* str.lower and str.strip.                                                *)

LowerChar(c) ==
    CASE c = "A" -> "a" [] c = "B" -> "b" [] c = "C" -> "c" [] c = "D" -> "d"
      [] c = "E" -> "e" [] c = "F" -> "f" [] c = "G" -> "g" [] c = "H" -> "h"
      [] c = "I" -> "i" [] c = "J" -> "j" [] c = "K" -> "k" [] c = "L" -> "l"
      [] c = "M" -> "m" [] c = "N" -> "n" [] c = "O" -> "o" [] c = "P" -> "p"
      [] c = "Q" -> "q" [] c = "R" -> "r" [] c = "S" -> "s" [] c = "T" -> "t"
      [] c = "U" -> "u" [] c = "V" -> "v" [] c = "W" -> "w" [] c = "X" -> "x"
      [] c = "Y" -> "y" [] c = "Z" -> "z" [] OTHER -> c

\* a lower() that leaves the message as it is
LowerNothing(s) == s

\* str.lower, character by character (the halves are lowered separately)
RECURSIVE Lower(_)
Lower(s) ==
    IF Len(s) = 0 THEN ""
    ELSE IF Len(s) = 1 THEN LowerChar(s)
    ELSE LET half == Len(s) \div 2
         IN  Lower(SubSeq(s, 1, half)) \o Lower(SubSeq(s, half + 1, Len(s)))

IsSpace(c) == c \in {" ", "\t", "\n", "\r", "\f"}

Min(S) == CHOOSE x \in S : \A y \in S : x <= y

Max(S) == CHOOSE x \in S : \A y \in S : y <= x

\* str.strip: from the first to the last character that is not whitespace
Strip(s) ==
    LET kept == {i \in 1..Len(s) : ~IsSpace(SubSeq(s, i, i))}
    IN  IF kept = {} THEN "" ELSE SubSeq(s, Min(kept), Max(kept))

\* message.lower().strip()
Normalize(message) == Strip(Lower(message))

----------------------------------------------------------------------------
(* re.search for the dialect the table uses: literal characters, the dot   *)
(* (any character but a line break) and the star.  A pattern is compiled   *)
(* to its tokens: a run of literal characters, a dot, or a starred atom.   *)

IsDot(p, k) == SubSeq(p, k, k) = "."

IsStarred(p, k) == k < Len(p) /\ SubSeq(p, k + 1, k + 1) = "*"

\* the last index of the literal run that starts at k
LiteralEnd(p, k) ==
    LET stops == {j \in k..Len(p) : IsDot(p, j) \/ IsStarred(p, j)}
    IN  IF stops = {} THEN Len(p) ELSE Min(stops) - 1

RECURSIVE Compile(_, _)
Compile(p, k) ==
    IF k > Len(p) THEN << >>
    ELSE IF IsStarred(p, k)
    THEN <<[kind |-> "star", text |-> SubSeq(p, k, k)]>> \o Compile(p, k + 2)
    ELSE IF IsDot(p, k)
    THEN <<[kind |-> "dot", text |-> "."]>> \o Compile(p, k + 1)
    ELSE <<[kind |-> "literal", text |-> SubSeq(p, k, LiteralEnd(p, k))]>>
         \o Compile(p, LiteralEnd(p, k) + 1)

AtomMatches(a, c) == IF a = "." THEN c # "\n" ELSE c = a

\* do the tokens from the k-th on match s from position i on
RECURSIVE MatchAt(_, _, _, _)
MatchAt(tokens, k, s, i) ==
    IF k > Len(tokens) THEN TRUE
    ELSE IF tokens[k].kind = "star"
    THEN \E j \in i..(Len(s) + 1) :
            /\ \A t \in i..(j - 1) : AtomMatches(tokens[k].text, SubSeq(s, t, t))
            /\ MatchAt(tokens, k + 1, s, j)
    ELSE IF tokens[k].kind = "dot"
    THEN /\ i <= Len(s)
         /\ AtomMatches(".", SubSeq(s, i, i))
         /\ MatchAt(tokens, k + 1, s, i + 1)
    ELSE LET n == Len(tokens[k].text)
         IN  /\ i + n - 1 <= Len(s)
             /\ SubSeq(s, i, i + n - 1) = tokens[k].text
             /\ MatchAt(tokens, k + 1, s, i + n)

\* re.search tries every start position
ReSearch(pattern, s) ==
    LET tokens == Compile(pattern, 1)
    IN  \E i \in 1..(Len(s) + 1) : MatchAt(tokens, 1, s, i)

----------------------------------------------------------------------------
(* SQLQueryMapper: the ordered pattern table and match_intent.             *)

QueryPatterns == <<
    [patterns |-> <<
          "how many assets",
          "total assets",
          "count.*assets",
          "number of assets">>,
     sql |-> "SELECT COUNT(*) AS AssetCount FROM Assets WHERE Status <> 'Disposed';",
     answer_template |-> "You have {AssetCount} assets in your inventory.",
     intent |-> "asset_count_total"],
    [patterns |-> <<
          "how many assets.*by site",
          "assets.*per site",
          "asset count.*site",
          "breakdown.*site",
          "show.*assets.*by site",
          "show.*assets.*site",
          "list.*assets.*by site",
          "assets.*by site">>,
     sql |-> "SELECT s.SiteName, COUNT(*) AS AssetCount \nFROM Assets a \nJOIN Sites s ON s.SiteId = a.SiteId \nWHERE a.Status <> 'Disposed' \nGROUP BY s.SiteName \nORDER BY AssetCount DESC;",
     answer_template |-> "Here's the asset count by site: {results}",
     intent |-> "asset_count_by_site"],
    [patterns |-> <<
          "total value.*assets.*site",
          "asset value.*site",
          "value.*assets.*per site">>,
     sql |-> "SELECT s.SiteName, SUM(ISNULL(a.Cost, 0)) AS TotalValue\nFROM Assets a\nJOIN Sites s ON s.SiteId = a.SiteId\nWHERE a.Status <> 'Disposed'\nGROUP BY s.SiteName\nORDER BY TotalValue DESC;",
     answer_template |-> "Here's the total asset value by site: {results}",
     intent |-> "asset_value_by_site"],
    [patterns |-> <<
          "assets purchased.*this year",
          "assets.*bought.*year",
          "how many.*purchased.*current year">>,
     sql |-> "SELECT COUNT(*) AS AssetCount\nFROM Assets\nWHERE YEAR(PurchaseDate) = YEAR(GETDATE())\nAND Status <> 'Disposed';",
     answer_template |-> "You purchased {AssetCount} assets this year.",
     intent |-> "assets_purchased_this_year"],
    [patterns |-> <<
          "which vendor.*most assets",
          "vendor.*supplied.*most",
          "top vendor.*assets">>,
     sql |-> "SELECT TOP 1 v.VendorName, COUNT(*) AS AssetCount\nFROM Assets a\nJOIN Vendors v ON v.VendorId = a.VendorId\nWHERE a.Status <> 'Disposed'\nGROUP BY v.VendorName\nORDER BY AssetCount DESC;",
     answer_template |-> "The vendor that supplied the most assets is {VendorName} with {AssetCount} assets.",
     intent |-> "top_vendor_by_assets"],
    [patterns |-> <<
          "total billed.*last quarter",
          "bills.*last quarter",
          "amount billed.*quarter">>,
     sql |-> "SELECT SUM(TotalAmount) AS TotalBilled\nFROM Bills\nWHERE BillDate >= DATEADD(QUARTER, DATEDIFF(QUARTER, 0, GETDATE()) - 1, 0)\nAND BillDate < DATEADD(QUARTER, DATEDIFF(QUARTER, 0, GETDATE()), 0);",
     answer_template |-> "The total billed amount for the last quarter is ${TotalBilled:,.2f}.",
     intent |-> "total_billed_last_quarter"],
    [patterns |-> <<
          "how many.*open.*purchase orders",
          "pending.*purchase orders",
          "open.*po">>,
     sql |-> "SELECT COUNT(*) AS OpenPOCount\nFROM PurchaseOrders\nWHERE Status = 'Open';",
     answer_template |-> "There are {OpenPOCount} open purchase orders currently pending.",
     intent |-> "open_purchase_orders"],
    [patterns |-> <<
          "assets.*by category",
          "breakdown.*category",
          "assets.*per category",
          "show.*assets.*category",
          "list.*assets.*category">>,
     sql |-> "SELECT Category, COUNT(*) AS AssetCount\nFROM Assets\nWHERE Status <> 'Disposed'\nGROUP BY Category\nORDER BY AssetCount DESC;",
     answer_template |-> "Here's the breakdown of assets by category: {results}",
     intent |-> "assets_by_category"],
    [patterns |-> <<
          "sales orders.*customer.*last month",
          "how many.*sales orders.*month",
          "so.*created.*customer">>,
     sql |-> "SELECT c.CustomerName, COUNT(*) AS SOCount\nFROM SalesOrders so\nJOIN Customers c ON c.CustomerId = so.CustomerId\nWHERE so.SODate >= DATEADD(MONTH, -1, GETDATE())\nGROUP BY c.CustomerName\nORDER BY SOCount DESC;",
     answer_template |-> "Here are the sales orders created for customers last month: {results}",
     intent |-> "sales_orders_by_customer_last_month"],
    [patterns |-> <<
          "list.*vendors",
          "show.*vendors",
          "all vendors">>,
     sql |-> "SELECT VendorCode, VendorName, Email, Phone\nFROM Vendors\nWHERE IsActive = 1\nORDER BY VendorName;",
     answer_template |-> "Here are all active vendors: {results}",
     intent |-> "list_vendors"],
    [patterns |-> <<
          "list.*customers",
          "show.*customers",
          "all customers">>,
     sql |-> "SELECT CustomerCode, CustomerName, Email, Phone\nFROM Customers\nWHERE IsActive = 1\nORDER BY CustomerName;",
     answer_template |-> "Here are all active customers: {results}",
     intent |-> "list_customers"],
    [patterns |-> <<
          "list.*sites",
          "show.*sites",
          "all sites">>,
     sql |-> "SELECT SiteCode, SiteName, City, Country\nFROM Sites\nWHERE IsActive = 1\nORDER BY SiteName;",
     answer_template |-> "Here are all active sites: {results}",
     intent |-> "list_sites"]
>>

\* Python None, and the dict match_intent returns for an entry
NoIntent == [none |-> TRUE, sql |-> "", answer_template |-> "", intent |-> ""]

\* a result dict whose sql is taken from the answer template
IntentOfSwapped(pattern_def) ==
    [none |-> FALSE,
     sql |-> pattern_def.answer_template,
     answer_template |-> pattern_def.answer_template,
     intent |-> pattern_def.intent]

IntentOf(pattern_def) ==
    [none |-> FALSE,
     sql |-> pattern_def.sql,
     answer_template |-> pattern_def.answer_template,
     intent |-> pattern_def.intent]

\* the inner for loop: is some pattern of the entry found in the message
RECURSIVE AnyPattern(_, _, _)
AnyPattern(patterns, message_lower, p) ==
    IF p > Len(patterns) THEN FALSE
    ELSE IF ReSearch(patterns[p], message_lower) THEN TRUE
    ELSE AnyPattern(patterns, message_lower, p + 1)

\* an outer loop that goes through the table from its last entry
RECURSIVE MatchLoopBackward(_, _, _)
MatchLoopBackward(table, message_lower, e) ==
    IF e > Len(table) THEN NoIntent
    ELSE IF AnyPattern(table[Len(table) + 1 - e].patterns, message_lower, 1)
    THEN IntentOf(table[Len(table) + 1 - e])
    ELSE MatchLoopBackward(table, message_lower, e + 1)

\* the outer for loop, returning at the first entry with a pattern found
RECURSIVE MatchLoop(_, _, _)
MatchLoop(table, message_lower, e) ==
    IF e > Len(table) THEN NoIntent
    ELSE IF AnyPattern(table[e].patterns, message_lower, 1) THEN IntentOf(table[e])
    ELSE MatchLoop(table, message_lower, e + 1)

\* a matcher that forgets message.lower()
match_intent_case_sensitive(message) == MatchLoop(QueryPatterns, Strip(message), 1)

match_intent(message) == MatchLoop(QueryPatterns, Normalize(message), 1)

----------------------------------------------------------------------------
(* The pattern verification script: its own table and its own matcher.     *)

build_query_patterns == <<
    [patterns |-> <<
          "how many assets",
          "total assets",
          "count.*assets",
          "number of assets">>,
     intent |-> "asset_count_total"],
    [patterns |-> <<
          "how many assets.*by site",
          "assets.*per site",
          "asset count.*site",
          "breakdown.*site",
          "show.*assets.*by site",
          "show.*assets.*site",
          "list.*assets.*by site",
          "assets.*by site">>,
     intent |-> "asset_count_by_site"],
    [patterns |-> <<
          "assets.*by category",
          "breakdown.*category",
          "assets.*per category",
          "show.*assets.*category",
          "list.*assets.*category">>,
     intent |-> "assets_by_category"],
    [patterns |-> <<
          "list.*vendors",
          "show.*vendors",
          "all vendors">>,
     intent |-> "list_vendors"] >>

\* the two for loops of the script's match_intent
RECURSIVE ScriptMatchLoop(_, _, _)
ScriptMatchLoop(patterns, message_lower, e) ==
    IF e > Len(patterns) THEN "NO_MATCH"
    ELSE IF AnyPattern(patterns[e].patterns, message_lower, 1) THEN patterns[e].intent
    ELSE ScriptMatchLoop(patterns, message_lower, e + 1)

\* match_intent(message, patterns) of the script
script_match_intent(message, patterns) ==
    ScriptMatchLoop(patterns, Normalize(message), 1)

----------------------------------------------------------------------------
(* SessionManager: a defaultdict(list) of turn dicts.                      *)

SessionIds == {"s1", "s2"}

\* defaultdict.__getitem__: a missing key is inserted with an empty list
DefaultGet(store, session_id) ==
    IF session_id \in DOMAIN store THEN store ELSE store @@ (session_id :> << >>)

\* a store that keeps one list for all sessions
add_message_shared(store, session_id, ref) ==
    [sid \in DOMAIN store \cup {session_id} |->
        Append(DefaultGet(store, sid)[sid], ref)]

\* a store that inserts the new turn at the front of the list
add_message_front(store, session_id, ref) ==
    [DefaultGet(store, session_id) EXCEPT ![session_id] = <<ref>> \o @]

\* a store that starts the list over at every append
add_message_replace(store, session_id, ref) ==
    [DefaultGet(store, session_id) EXCEPT ![session_id] = <<ref>>]

\* self.sessions[session_id].append(turn), turn being the reference of the dict
add_message(store, session_id, ref) ==
    [DefaultGet(store, session_id) EXCEPT ![session_id] = Append(@, ref)]

\* a store that hands the list out last turn first
get_messages_reversed(store, session_id) ==
    LET stored == DefaultGet(store, session_id)[session_id]
    IN  [i \in 1..Len(stored) |-> stored[Len(stored) + 1 - i]]

\* return self.sessions[session_id]: the list itself, holding the same dicts
get_messages(store, session_id) == DefaultGet(store, session_id)[session_id]

\* a clear that empties the list and keeps the key
clear_session_keeps_key(store, session_id) ==
    IF session_id \in DOMAIN store
    THEN [store EXCEPT ![session_id] = << >>]
    ELSE store

\* if session_id in self.sessions: del self.sessions[session_id]
clear_session(store, session_id) ==
    IF session_id \in DOMAIN store
    THEN [sid \in DOMAIN store \ {session_id} |-> store[sid]]
    ELSE store

----------------------------------------------------------------------------
(* OpenAIService.create_chat_completion over what the provider answers.    *)

ModelName == "gpt-4o-mini"

\* a key that the environment holds when the service is configured
ApiKey == "sk-test"

\* an __init__ that only refuses a key that is not set at all
OpenAIServiceInitNoneOnly(api_key) ==
    IF api_key = PyNone
    THEN [raised |-> TRUE, type |-> "ValueError",
          error |-> "OPENAI_API_KEY environment variable is required",
          api_key |-> api_key, model |-> ""]
    ELSE [raised |-> FALSE, type |-> "", error |-> "",
          api_key |-> api_key, model |-> ModelName]

\* OpenAIService.__init__ with os.getenv("OPENAI_API_KEY") = api_key:
\* "not self.api_key" holds of None and of the empty string
OpenAIServiceInit(api_key) ==
    IF api_key = PyNone \/ api_key = PyStr("")
    THEN [raised |-> TRUE, type |-> "ValueError",
          error |-> "OPENAI_API_KEY environment variable is required",
          api_key |-> api_key, model |-> ""]
    ELSE [raised |-> FALSE, type |-> "", error |-> "",
          api_key |-> api_key, model |-> ModelName]

\* the module has not reached "chat_service = ChatService()" yet
NotImported ==
    [state |-> "importing",
     openai_service |-> [raised |-> FALSE, type |-> "", error |-> "",
                         api_key |-> PyNone, model |-> ""]]

\* ChatService.__init__ builds the client first; when that raises, the
\* module-level assignment does not happen and the import fails
ChatServiceInit(api_key) ==
    LET openai_service == OpenAIServiceInit(api_key)
    IN  [state |-> IF openai_service.raised THEN "failed" ELSE "running",
         openai_service |-> openai_service]

Usage(p, c, t) == [prompt_tokens |-> p, completion_tokens |-> c, total_tokens |-> t]

Choice(content) == [content |-> content, role |-> "assistant"]

\* what client.chat.completions.create does: it raises, or it returns a
\* response object whose fields the SDK does not validate
ProviderOutcomes ==
    {[kind |-> "raise", cause |-> "Request timed out.", choices |-> << >>, usage |-> << >>],
     [kind |-> "response", cause |-> "",
      choices |-> <<Choice(PyStr("Here are all active vendors."))>>,
      usage |-> <<Usage(PyInt(12), PyInt(5), PyInt(17))>>],
     [kind |-> "response", cause |-> "",
      choices |-> <<Choice(PyNone)>>,
      usage |-> <<Usage(PyInt(12), PyInt(0), PyInt(12))>>],
     [kind |-> "response", cause |-> "",
      choices |-> << >>,
      usage |-> <<Usage(PyInt(12), PyInt(0), PyInt(12))>>]}

\* before the provider has answered
NoOutcome == [kind |-> "", cause |-> "", choices |-> << >>, usage |-> << >>]

Raised(msg) == [raised |-> TRUE, error |-> msg, content |-> PyNone,
                usage |-> Usage(PyNoInt, PyNoInt, PyNoInt)]

Returned(content, usage) == [raised |-> FALSE, error |-> "", content |-> content,
                             usage |-> usage]

\* an except clause that raises without the text of what it caught
create_chat_completion_hides_cause(raw) ==
    IF raw.kind = "raise" \/ Len(raw.choices) = 0 \/ Len(raw.usage) = 0
    THEN Raised("OpenAI API error")
    ELSE Returned(raw.choices[1].content, raw.usage[1])

\* the try block builds the dict (choices[0] first, then usage); the except
\* clause re-raises anything as Exception("OpenAI API error: ...")
create_chat_completion(raw) ==
    IF raw.kind = "raise" THEN Raised("OpenAI API error: " \o raw.cause)
    ELSE IF Len(raw.choices) = 0
    THEN Raised("OpenAI API error: list index out of range")
    ELSE IF Len(raw.usage) = 0
    THEN Raised("OpenAI API error: 'NoneType' object has no attribute 'prompt_tokens'")
    ELSE Returned(raw.choices[1].content, raw.usage[1])

----------------------------------------------------------------------------
(* ChatService.process_message.                                            *)

SYSTEM_PROMPT == "You are a helpful inventory management assistant. \nYou help users query their inventory database which includes assets, customers, vendors, \nsites, locations, bills, purchase orders, and sales orders.\n\nWhen a user asks a question about their inventory, provide a clear, concise answer.\nFocus on being helpful and accurate. Keep responses brief and to the point."

NoMatchSql == "-- No matching SQL query pattern found for this question"

ErrorSql == "-- Error occurred"

\* the f-string of the matched branch (its non-breaking hyphen written -)
enhanced_message(message, intent_match) ==
    message \o "\n\n"
    \o "[System: intent='" \o intent_match.intent \o "'. "
    \o "SQL query to be executed: " \o intent_match.sql \o ". "
    \o "Answer template hint: " \o intent_match.answer_template \o ". "
    \o "Decide whether the template is useful based on the SQL result & User Message. Modify if needed. "
    \o "Respond with a concise, high-level answer as if the query executed. "
    \o "Do not invent specific numbers unless the user provided them. "
    \o "If results are unknown, describe what the result set would contain (entities, counts). "
    \o "Do not show SQL. Keep under 60 words.]"

\* a no-match branch that leaves sql_query empty
SqlQueryOfEmpty(intent_match) == IF intent_match.none THEN "" ELSE intent_match.sql

\* a choice of sql_query that drops the last character of the template
SqlQueryOfTrimmed(intent_match) ==
    IF intent_match.none THEN NoMatchSql
    ELSE SubSeq(intent_match.sql, 1, Len(intent_match.sql) - 1)

\* sql_query of lines 42-47
SqlQueryOf(intent_match) == IF intent_match.none THEN NoMatchSql ELSE intent_match.sql

TokenUsage(p, c, t) == [prompt_tokens |-> p, completion_tokens |-> c, total_tokens |-> t]

NoResult == [status |-> "", natural_language_answer |-> "", sql_query |-> "",
             token_usage |-> TokenUsage(0, 0, 0), provider |-> "", model |-> ""]

\* an except clause that reports the no-match sentinel
ErrorResponseWrongSentinel(e) ==
    [status |-> "error",
     natural_language_answer |-> "Error processing request: " \o e,
     sql_query |-> NoMatchSql,
     token_usage |-> TokenUsage(0, 0, 0),
     provider |-> "openai",
     model |-> ModelName]

\* the ChatResponse of the except clause
ErrorResponse(e) ==
    [status |-> "error",
     natural_language_answer |-> "Error processing request: " \o e,
     sql_query |-> ErrorSql,
     token_usage |-> TokenUsage(0, 0, 0),
     provider |-> "openai",
     model |-> ModelName]

\* pydantic: natural_language_answer is a str, the three counters are ints
Validates(assistant_message, usage) ==
    /\ assistant_message.t = "str"
    /\ usage.prompt_tokens.t = "int"
    /\ usage.completion_tokens.t = "int"
    /\ usage.total_tokens.t = "int"

ValidationError(assistant_message, usage) ==
    IF usage.prompt_tokens.t # "int" \/ usage.completion_tokens.t # "int"
       \/ usage.total_tokens.t # "int"
    THEN "1 validation error for TokenUsage"
    ELSE "1 validation error for ChatResponse"

\* a ChatResponse built outside the try block: its validation error escapes
OkResponseUncaught(assistant_message, sql_query, usage) ==
    [status |-> IF Validates(assistant_message, usage) THEN "ok" ELSE "unhandled exception",
     natural_language_answer |-> assistant_message.v,
     sql_query |-> sql_query,
     token_usage |-> TokenUsage(usage.prompt_tokens.n, usage.completion_tokens.n,
                                usage.total_tokens.n),
     provider |-> "openai",
     model |-> ModelName]

\* the ChatResponse of the try block; a validation error lands in the except clause
OkResponse(assistant_message, sql_query, usage) ==
    IF Validates(assistant_message, usage)
    THEN [status |-> "ok",
          natural_language_answer |-> assistant_message.v,
          sql_query |-> sql_query,
          token_usage |-> TokenUsage(usage.prompt_tokens.n, usage.completion_tokens.n,
                                     usage.total_tokens.n),
          provider |-> "openai",
          model |-> ModelName]
    ELSE ErrorResponse(ValidationError(assistant_message, usage))

----------------------------------------------------------------------------
(* The invocations of process_message.  A call is a record of its          *)
(* arguments, its locals and its position; peers and len_before are        *)
(* history: the calls that were in flight together with it, and the length *)
(* of its session when it began.                                           *)

MaxCalls == 2

MaxSeqCalls == 3

ChatMessages == {"List all vendors", "hello"}

MaxFrags == 2

\* A module string holds ASCII characters only.  In a message, "#" is
\* written for the letter U+0131 (dotless i): like that letter it is left
\* alone by lower() and strip() and equals no character of a pattern.
DotlessI == "#"

Fragments ==
    {"show me assets ", "how many assets ", "by site", "by category",
     "assets by site", "HOW MANY ASSETS", "\n", "assets by s#te",
     "assets by site and assets by category", "How many open purchase orders?",
              "Show vendors with open POs"}

RECURSIVE Concats(_)
Concats(n) ==
    IF n = 0 THEN {""}
    ELSE LET shorter == Concats(n - 1)
         IN  shorter \cup {m \o f : m \in shorter, f \in Fragments}

QueryMessages == Concats(MaxFrags)

\* match_intent is pure: its value on the chat messages is computed once
IntentOfChat == [message \in ChatMessages |-> match_intent(message)]

IntentOfMessage(message) ==
    IF message \in ChatMessages THEN IntentOfChat[message] ELSE match_intent(message)

Last(seq) == seq[Len(seq)]

InFlight(c) == calls[c].pc # "done"

NoneInFlight == \A c \in DOMAIN calls : ~InFlight(c)

SetCall(c, fields) == [calls EXCEPT ![c] = fields @@ calls[c]]

NoOp == [name |-> "", sid |-> "", role |-> "", content |-> PyNone,
         before |-> << >>, returned |-> << >>]

Init ==
    /\ sessions = << >>
    /\ heap = << >>
    /\ calls = << >>
    /\ log = << >>
    /\ query = ""
    /\ matched = << >>
    /\ op = NoOp
    /\ chat_service = ChatServiceInit(PyStr(ApiKey))

\* lines 36-50: the request arrives, the intent is matched, sql_query is
\* chosen and add_message(session_id, "user", message) appends the user turn
Begin(session_id, message) ==
    LET intent_match == IntentOfMessage(message)
        c == Len(calls) + 1
        running == {d \in DOMAIN calls : InFlight(d)}
        call == [sid |-> session_id,
                 message |-> message,
                 pc |-> "appended",
                 intent_match |-> intent_match,
                 sql_query |-> SqlQueryOf(intent_match),
                 messages |-> << >>,
                 prompt |-> << >>,
                 requests |-> 0,
                 raw |-> NoOutcome,
                 completion |-> Raised(""),
                 result |-> NoResult,
                 peers |-> running,
                 len_before |-> Len(get_messages(sessions, session_id))]
    IN  /\ calls' = Append([d \in DOMAIN calls |->
                              IF d \in running
                              THEN [calls[d] EXCEPT !.peers = @ \cup {c}]
                              ELSE calls[d]],
                           call)
        /\ heap' = Append(heap, [role |-> "user", content |-> PyStr(message)])
        /\ sessions' = add_message(sessions, session_id, Len(heap) + 1)
        /\ log' = Append(log, [call |-> c, sid |-> session_id, stored |-> TRUE,
                               role |-> "user", content |-> PyStr(message)])
        /\ UNCHANGED <<query, matched, op, chat_service>>

\* lines 53-54: a fresh system dict, then extend with the session's own dicts
BuildMessages(c) ==
    /\ calls[c].pc = "appended"
    /\ heap' = Append(heap, [role |-> "system", content |-> PyStr(SYSTEM_PROMPT)])
    /\ log' = Append(log, [call |-> c, sid |-> calls[c].sid, stored |-> FALSE,
                           role |-> "system", content |-> PyStr(SYSTEM_PROMPT)])
    /\ sessions' = DefaultGet(sessions, calls[c].sid)
    /\ calls' = SetCall(c, [pc |-> "built",
                            messages |-> <<Len(heap) + 1>>
                                         \o get_messages(sessions, calls[c].sid)])
    /\ UNCHANGED <<query, matched, op, chat_service>>

\* lines 57-69: messages[-1]["content"] = enhanced_message, when matched
Enhance(h, messages, message, intent_match) ==
    IF intent_match.none THEN h
    ELSE [h EXCEPT ![Last(messages)].content =
                        PyStr(enhanced_message(message, intent_match))]

EnhanceMessage(c) ==
    /\ calls[c].pc = "built"
    /\ heap' = Enhance(heap, calls[c].messages, calls[c].message, calls[c].intent_match)
    /\ calls' = SetCall(c, [pc |-> "ready"])
    /\ UNCHANGED <<sessions, log, query, matched, op, chat_service>>

\* a request that leaves the system dict out
PromptOfWithoutSystem(h, messages) ==
    [i \in 1..(Len(messages) - 1) |-> h[messages[i + 1]]]

\* line 72, entering the client: the messages as they are now go out
PromptOf(h, messages) == [i \in 1..Len(messages) |-> h[messages[i]]]

SendRequest(c) ==
    /\ calls[c].pc = "ready"
    /\ calls' = SetCall(c, [pc |-> "waiting",
                            prompt |-> PromptOf(heap, calls[c].messages),
                            requests |-> calls[c].requests + 1])
    /\ UNCHANGED <<sessions, heap, log, query, matched, op, chat_service>>

\* lines 72-113: the client returns or raises.  An exception is caught at
\* line 98.  Otherwise the reply is appended as the assistant turn (line 79)
\* and the ChatResponse is built, a validation error landing at line 98 too.
ResultOf(sql_query, completion) ==
    IF completion.raised
    THEN ErrorResponse(completion.error)
    ELSE OkResponse(completion.content, sql_query, completion.usage)

\* an except clause that goes back to line 72 instead of returning
AfterCompletionRetry(completion) == IF completion.raised THEN "ready" ELSE "done"

\* a call that stays in the client when the request has failed
AfterCompletionStuck(completion) == IF completion.raised THEN "waiting" ELSE "done"

\* lines 84-96 and 98-113 both end in a return: the call is over
AfterCompletion(completion) == "done"

\* an except clause that takes the user turn back
SessionsAfterCompletionRollback(store, session_id, ref, completion) ==
    IF completion.raised
    THEN [store EXCEPT ![session_id] = SubSeq(@, 1, Len(@) - 1)]
    ELSE add_message(store, session_id, ref)

\* on an exception nothing is undone: the user turn of line 50 stays
SessionsAfterCompletion(store, session_id, ref, completion) ==
    IF completion.raised THEN store ELSE add_message(store, session_id, ref)

Complete(c, raw) ==
    LET completion == create_chat_completion(raw)
        turn == [role |-> "assistant", content |-> completion.content]
    IN  /\ calls[c].pc = "waiting"
        /\ calls' = SetCall(c, [pc |-> AfterCompletion(completion),
                                raw |-> raw,
                                completion |-> completion,
                                result |-> ResultOf(calls[c].sql_query, completion)])
        /\ heap' = IF completion.raised THEN heap ELSE Append(heap, turn)
        /\ sessions' = SessionsAfterCompletion(sessions, calls[c].sid, Len(heap) + 1,
                                               completion)
        /\ log' = IF completion.raised THEN log
                  ELSE Append(log, [call |-> c, sid |-> calls[c].sid, stored |-> TRUE] @@ turn)
        /\ UNCHANGED <<query, matched, op, chat_service>>

\* requests are dispatched concurrently: the steps of the calls interleave
\* session identifiers are interchangeable (the code only uses them as keys):
\* the first call is taken to be the one on "s1"
FirstSessionIds == IF calls = << >> THEN {"s1"} ELSE SessionIds

Accept ==
    /\ Len(calls) < MaxCalls
    /\ \E session_id \in FirstSessionIds, message \in ChatMessages :
          Begin(session_id, message)

Next ==
    \/ Accept
    \/ \E c \in DOMAIN calls : BuildMessages(c)
    \/ \E c \in DOMAIN calls : EnhanceMessage(c)
    \/ \E c \in DOMAIN calls : SendRequest(c)
    \/ \E c \in DOMAIN calls, raw \in ProviderOutcomes : Complete(c, raw)

Spec == Init /\ [][Next]_vars

\* A call that has begun runs on: each of lines 53-72 is a statement of a
\* running thread, and the request of line 72 carries timeout=60, so the
\* client returns or raises.  Whether further requests arrive is left open.
Step(c) ==
    /\ c \in DOMAIN calls
    /\ \/ BuildMessages(c)
       \/ EnhanceMessage(c)
       \/ SendRequest(c)
       \/ \E raw \in ProviderOutcomes : Complete(c, raw)

\* the calls all go to one session, with a message that the matcher matches
LiveAccept ==
    /\ Len(calls) < MaxCalls
    /\ Begin("s1", "List all vendors")

LiveNext ==
    \/ LiveAccept
    \/ \E c \in DOMAIN calls : Step(c)

LiveSpec == Init /\ [][LiveNext]_vars /\ \A c \in 1..MaxCalls : WF_vars(Step(c))

\* the handler is a coroutine that calls process_message without awaiting:
\* the event loop takes the next request when the call has returned
AcceptOn(session_id) ==
    /\ Len(calls) < MaxSeqCalls
    /\ NoneInFlight
    /\ \E message \in ChatMessages : Begin(session_id, message)

AcceptNext == \E session_id \in SessionIds : AcceptOn(session_id)

SeqNext ==
    \/ AcceptNext
    \/ \E c \in DOMAIN calls : BuildMessages(c)
    \/ \E c \in DOMAIN calls : EnhanceMessage(c)
    \/ \E c \in DOMAIN calls : SendRequest(c)
    \/ \E c \in DOMAIN calls, raw \in ProviderOutcomes : Complete(c, raw)

SeqSpec == Init /\ [][SeqNext]_vars

----------------------------------------------------------------------------
(* Start-up specification: the application module is imported with some    *)
(* value of OPENAI_API_KEY in the environment, and requests are served     *)
(* once the import has succeeded.                                          *)

\* os.getenv("OPENAI_API_KEY"): not set, set to the empty string, or set
ApiKeys == {PyNone, PyStr(""), PyStr(ApiKey)}

StartInit ==
    /\ sessions = << >>
    /\ heap = << >>
    /\ calls = << >>
    /\ log = << >>
    /\ query = ""
    /\ matched = << >>
    /\ op = NoOp
    /\ chat_service = NotImported

\* chat_service = ChatService() at module level
Import ==
    /\ chat_service.state = "importing"
    /\ \E api_key \in ApiKeys : chat_service' = ChatServiceInit(api_key)
    /\ UNCHANGED <<sessions, heap, calls, log, query, matched, op>>

\* uvicorn.run(app) is reached, and the handler can read chat_service, only
\* when the import went through
Serve ==
    /\ chat_service.state = "running"
    /\ SeqNext

StartNext ==
    \/ Import
    \/ Serve

StartSpec == StartInit /\ [][StartNext]_vars

----------------------------------------------------------------------------
(* Matcher specification: a message is drawn from the concatenations of    *)
(* at most MaxFrags fragments; match_intent is applied to it, and then one *)
(* process_message call is made with it.                                   *)

MatchInit ==
    /\ sessions = << >>
    /\ heap = << >>
    /\ calls = << >>
    /\ log = << >>
    /\ query \in QueryMessages
    /\ matched = << >>
    /\ op = NoOp
    /\ chat_service = ChatServiceInit(PyStr(ApiKey))

MatchIntent ==
    /\ matched = << >>
    /\ matched' = <<match_intent(query)>>
    /\ UNCHANGED <<sessions, heap, calls, log, query, op, chat_service>>

AcceptQuery ==
    /\ matched # << >>
    /\ calls = << >>
    /\ Begin("s1", query)

\* a matcher that keeps what it saw in the session
MatchAgainRemembering ==
    /\ Len(matched) = 1
    /\ calls # << >>
    /\ \A c \in DOMAIN calls : ~InFlight(c)
    /\ matched' = Append(matched, match_intent(query))
    /\ heap' = Append(heap, [role |-> "system", content |-> PyStr(query)])
    /\ sessions' = add_message(sessions, "s1", Len(heap) + 1)
    /\ log' = Append(log, [call |-> 0, sid |-> "s1", stored |-> TRUE,
                           role |-> "system", content |-> PyStr(query)])
    /\ UNCHANGED <<calls, query, op, chat_service>>

\* match_intent is called a second time with the message, after the
\* process_message call made with it has returned
MatchAgain ==
    /\ Len(matched) = 1
    /\ calls # << >>
    /\ \A c \in DOMAIN calls : ~InFlight(c)
    /\ matched' = Append(matched, match_intent(query))
    /\ UNCHANGED <<sessions, heap, calls, log, query, op, chat_service>>

MatchNext ==
    \/ MatchIntent
    \/ AcceptQuery
    \/ MatchAgain
    \/ \E c \in DOMAIN calls : BuildMessages(c)
    \/ \E c \in DOMAIN calls : EnhanceMessage(c)
    \/ \E c \in DOMAIN calls : SendRequest(c)
    \/ \E c \in DOMAIN calls, raw \in ProviderOutcomes : Complete(c, raw)

MatchSpec == MatchInit /\ [][MatchNext]_vars

----------------------------------------------------------------------------
(* Store specification: add_message, get_messages and clear_session are    *)
(* called on the SessionManager directly, in any order.  op records the    *)
(* last call: its arguments, the store as it was before, and what the call *)
(* returned (for get_messages, the references of the list handed out).     *)

MaxTurns == 3

Roles == {"user", "assistant"}

Contents == {"hi", "List all vendors"}

StoreAdd(session_id, role, content) ==
    /\ Len(heap) < MaxTurns
    /\ heap' = Append(heap, [role |-> role, content |-> PyStr(content)])
    /\ sessions' = add_message(sessions, session_id, Len(heap) + 1)
    /\ log' = Append(log, [call |-> 0, sid |-> session_id, stored |-> TRUE,
                           role |-> role, content |-> PyStr(content)])
    /\ op' = [name |-> "add_message", sid |-> session_id, role |-> role,
              content |-> PyStr(content), before |-> sessions, returned |-> << >>]
    /\ UNCHANGED <<calls, query, matched, chat_service>>

\* self.sessions[session_id] on the defaultdict: the key is there afterwards
StoreGet(session_id) ==
    /\ sessions' = DefaultGet(sessions, session_id)
    /\ op' = [name |-> "get_messages", sid |-> session_id, role |-> "",
              content |-> PyNone, before |-> sessions,
              returned |-> get_messages(sessions, session_id)]
    /\ UNCHANGED <<heap, calls, log, query, matched, chat_service>>

\* the log keeps, per dict, whether it is still held by the store
StoreClear(session_id) ==
    /\ sessions' = clear_session(sessions, session_id)
    /\ log' = [ref \in DOMAIN log |->
                  IF log[ref].sid = session_id
                  THEN [log[ref] EXCEPT !.stored = FALSE]
                  ELSE log[ref]]
    /\ op' = [name |-> "clear_session", sid |-> session_id, role |-> "",
              content |-> PyNone, before |-> sessions, returned |-> << >>]
    /\ UNCHANGED <<heap, calls, query, matched, chat_service>>

StoreNext ==
    \/ \E session_id \in SessionIds, role \in Roles, content \in Contents :
          StoreAdd(session_id, role, content)
    \/ \E session_id \in SessionIds : StoreGet(session_id)
    \/ \E session_id \in SessionIds : StoreClear(session_id)

StoreSpec == Init /\ [][StoreNext]_vars

----------------------------------------------------------------------------
(* What the claims speak of.                                               *)

Done(c) == calls[c].pc = "done"

Present(session_id) == session_id \in DOMAIN sessions

\* the turn sequence of a session as read through the store
Turns(session_id) ==
    IF Present(session_id)
    THEN [i \in 1..Len(sessions[session_id]) |-> heap[sessions[session_id][i]]]
    ELSE << >>

Refs(session_id) ==
    IF Present(session_id)
    THEN {sessions[session_id][i] : i \in 1..Len(sessions[session_id])}
    ELSE {}

\* the dicts a call handed to add_message
AppendedBy(c) == {ref \in DOMAIN log : log[ref].stored /\ log[ref].call = c}

CallsOn(session_id) == {c \in DOMAIN calls : calls[c].sid = session_id}

\* the k-th call begun on a session
KthCallOn(session_id, k) ==
    CHOOSE c \in CallsOn(session_id) :
        Cardinality({d \in CallsOn(session_id) : d <= c}) = k

EntryMatches(e, message_lower) ==
    \E p \in 1..Len(QueryPatterns[e].patterns) :
        ReSearch(QueryPatterns[e].patterns[p], message_lower)

NoEntryMatches(message) ==
    \A e \in 1..Len(QueryPatterns) : ~EntryMatches(e, Normalize(message))

----------------------------------------------------------------------------
\* C1: every stored user turn has exactly the raw message of the call that
\* appended it as its content; the annotated variant is never in the history.
C1_StoredUserTurnsAreRaw ==
    \A session_id \in DOMAIN sessions :
        \A i \in 1..Len(sessions[session_id]) :
            LET ref == sessions[session_id][i]
            IN  heap[ref].role = "user" =>
                    heap[ref].content = PyStr(calls[log[ref].call].message)

----------------------------------------------------------------------------
\* C2: after N calls on a session, made one at a time and all returning ok,
\* the session has 2N turns, user and assistant alternating, the k-th pair
\* being the turns of the k-th call.
C2_TurnOrder ==
    \A session_id \in SessionIds :
        LET mine == CallsOn(session_id)
            n == Cardinality(mine)
            turns == Turns(session_id)
        IN  (\A c \in mine : Done(c) /\ calls[c].result.status = "ok") =>
                /\ Len(turns) = 2 * n
                /\ \A k \in 1..n :
                      /\ turns[2 * k - 1].role = "user"
                      /\ turns[2 * k].role = "assistant"
                      /\ log[sessions[session_id][2 * k - 1]].call = KthCallOn(session_id, k)
                      /\ log[sessions[session_id][2 * k]].call = KthCallOn(session_id, k)

C2_Witness ==
    \E session_id \in SessionIds :
        /\ Cardinality(CallsOn(session_id)) >= 2
        /\ \A c \in CallsOn(session_id) : Done(c) /\ calls[c].result.status = "ok"
        /\ Len(Turns(session_id)) = 2 * Cardinality(CallsOn(session_id))
        /\ \E c \in DOMAIN calls : calls[c].sid # session_id

----------------------------------------------------------------------------
\* C3: a returned result with status error has the error sentinel as its
\* sql_query and three zero counters, and a failed completion call always
\* gives status error.
C3_ErrorResult ==
    \A c \in DOMAIN calls :
        Done(c) =>
            /\ calls[c].completion.raised => calls[c].result.status = "error"
            /\ calls[c].result.status = "error" =>
                  /\ calls[c].result.sql_query = "-- Error occurred"
                  /\ calls[c].result.token_usage.prompt_tokens = 0
                  /\ calls[c].result.token_usage.completion_tokens = 0
                  /\ calls[c].result.token_usage.total_tokens = 0

C3_Witness ==
    \E c \in DOMAIN calls :
        /\ Done(c)
        /\ calls[c].completion.raised
        /\ ~calls[c].intent_match.none
        /\ calls[c].result.status = "error"

----------------------------------------------------------------------------
\* C4: whatever the completion client does (a reply, an exception, a
\* malformed reply), the call returns a well-formed result whose status is
\* ok or error; no exception leaves process_message.
WellFormed(result) ==
    /\ result.status \in {"ok", "error"}
    /\ result.natural_language_answer \in STRING
    /\ result.sql_query \in STRING
    /\ result.token_usage.prompt_tokens \in Nat
    /\ result.token_usage.completion_tokens \in Nat
    /\ result.token_usage.total_tokens \in Nat
    /\ result.provider = "openai"

C4_AlwaysAResult ==
    \A c \in DOMAIN calls : Done(c) => WellFormed(calls[c].result)

C4_Witness ==
    /\ \E c \in DOMAIN calls :
          Done(c) /\ ~calls[c].completion.raised /\ calls[c].completion.content = PyNone
    /\ \E c \in DOMAIN calls : Done(c) /\ calls[c].completion.raised

----------------------------------------------------------------------------
\* C5: match_intent returns the sql, answer template and intent of the first
\* table entry with a regex found in the trimmed, lowercased message, never
\* an entry that a matching entry precedes.  Read where match_intent has
\* just returned.
C5_FirstMatchWins ==
    (matched # << >> /\ calls = << >>) =>
        LET s == Normalize(query)
            hits == {e \in 1..Len(QueryPatterns) : EntryMatches(e, s)}
        IN  /\ matched[1].none <=> hits = {}
            /\ hits # {} =>
                  \E e \in hits :
                      /\ \A j \in hits : e <= j
                      /\ matched[1].sql = QueryPatterns[e].sql
                      /\ matched[1].answer_template = QueryPatterns[e].answer_template
                      /\ matched[1].intent = QueryPatterns[e].intent
            /\ s = "show me assets by site" => matched[1].intent = "asset_count_by_site"

C5_Witness ==
    /\ matched # << >>
    /\ calls = << >>
    /\ matched[1].intent = "asset_count_total"
    /\ query # Normalize(query)
    /\ EntryMatches(1, Normalize(query))
    /\ EntryMatches(2, Normalize(query))

----------------------------------------------------------------------------
\* C6 as stated: a message that no regex matches gets no intent, and the
\* call made with it returns the no-match sentinel as sql_query.
C6_NoMatchAlwaysSentinel ==
    \A c \in DOMAIN calls :
        Done(c) =>
            (~(/\ calls[c].intent_match.none
               /\ calls[c].result.sql_query =
                      "-- No matching SQL query pattern found for this question")
                => ~NoEntryMatches(calls[c].message))

\* C6 as amended: a message that no regex matches gets no intent; the call
\* made with it returns the no-match sentinel as sql_query when its status
\* is ok, and the error sentinel when its status is error.
C6_NoMatchSentinel ==
    \A c \in DOMAIN calls :
        Done(c) =>
            (~(/\ calls[c].intent_match.none
               /\ calls[c].result.status = "ok" =>
                      calls[c].result.sql_query =
                          "-- No matching SQL query pattern found for this question"
               /\ calls[c].result.status = "error" =>
                      calls[c].result.sql_query = "-- Error occurred"
               /\ calls[c].result.status \in {"ok", "error"})
                => ~NoEntryMatches(calls[c].message))

C6_Witness ==
    \E c \in DOMAIN calls :
        /\ Done(c)
        /\ calls[c].result.status = "ok"
        /\ calls[c].intent_match.none
        /\ calls[c].message # ""
        /\ NoEntryMatches(calls[c].message)

----------------------------------------------------------------------------
\* C7: a call whose completion call failed leaves its session one turn
\* longer than it found it, the new last turn being the user turn of that
\* call, with no assistant turn after it.  Read before a later call on the
\* session begins.
C7_FailedCallKeepsUserTurn ==
    \A c \in DOMAIN calls :
        (/\ Done(c)
         /\ calls[c].completion.raised
         /\ \A d \in CallsOn(calls[c].sid) : d <= c) =>
            LET stored == sessions[calls[c].sid]
            IN  /\ Len(stored) = calls[c].len_before + 1
                /\ heap[Last(stored)].role = "user"
                /\ AppendedBy(c) = {Last(stored)}

C7_Witness ==
    \E c \in DOMAIN calls :
        /\ Done(c)
        /\ calls[c].completion.raised
        /\ \A d \in CallsOn(calls[c].sid) : d <= c
        /\ calls[c].len_before >= 2
        /\ Len(sessions[calls[c].sid]) = calls[c].len_before + 1

----------------------------------------------------------------------------
\* C8: when the completion client returns, the call appends exactly one
\* assistant turn holding the reply, returns status ok with the reply as
\* natural_language_answer, and returns the three counters as reported.
C8_SuccessRecordsReply ==
    \A c \in DOMAIN calls :
        (Done(c) /\ ~calls[c].completion.raised) =>
            /\ calls[c].result.status = "ok"
            /\ PyStr(calls[c].result.natural_language_answer) = calls[c].completion.content
            /\ PyInt(calls[c].result.token_usage.prompt_tokens)
                   = calls[c].completion.usage.prompt_tokens
            /\ PyInt(calls[c].result.token_usage.completion_tokens)
                   = calls[c].completion.usage.completion_tokens
            /\ PyInt(calls[c].result.token_usage.total_tokens)
                   = calls[c].completion.usage.total_tokens
            /\ \E ref \in AppendedBy(c) :
                  /\ {r \in AppendedBy(c) : log[r].role = "assistant"} = {ref}
                  /\ ref \in Refs(calls[c].sid)
                  /\ heap[ref] = [role |-> "assistant",
                                  content |-> calls[c].completion.content]

----------------------------------------------------------------------------
\* C9: a step of a call on session A leaves the turn sequence of every other
\* session as it was, and the messages a call sends hold no turn of another
\* session.
Actor ==
    IF Len(calls') > Len(calls) THEN Len(calls')
    ELSE CHOOSE c \in DOMAIN calls : calls'[c].pc # calls[c].pc

Stored(session_id) == [present |-> Present(session_id), turns |-> Turns(session_id)]

OwnMessagesOnly ==
    \A c \in DOMAIN calls :
        \A session_id \in SessionIds \ {calls[c].sid} :
            \A i \in 1..Len(calls[c].messages) :
                calls[c].messages[i] \notin Refs(session_id)

C9_SessionIsolation ==
    [][/\ \A session_id \in SessionIds :
              session_id # calls'[Actor].sid => Stored(session_id)' = Stored(session_id)
       /\ OwnMessagesOnly']_vars

C9_Witness ==
    \E c, d \in DOMAIN calls :
        /\ calls[c].sid # calls[d].sid
        /\ d \in calls[c].peers
        /\ calls[c].pc = "waiting"
        /\ Len(calls[c].prompt) = 2
        /\ Len(Turns(calls[d].sid)) >= 1
        /\ Done(d)

----------------------------------------------------------------------------
\* C10: when two calls on one session ran concurrently and both have
\* returned, the session holds every turn either of them appended, each
\* with the content it was appended with.
C10_NoLostUpdate ==
    \A c, d \in DOMAIN calls :
        (/\ c # d
         /\ calls[c].sid = calls[d].sid
         /\ d \in calls[c].peers
         /\ Done(c)
         /\ Done(d)) =>
            \A ref \in AppendedBy(c) \cup AppendedBy(d) :
                /\ ref \in Refs(calls[c].sid)
                /\ heap[ref].role = log[ref].role
                /\ heap[ref].content = log[ref].content

----------------------------------------------------------------------------
\* C11: while a call is suspended in the completion call, a request for a
\* different session can be accepted (and then run to completion): the
\* completion call of one session does not block another session.
C11_OtherSessionNotBlocked ==
    \A c \in DOMAIN calls :
        (calls[c].pc = "waiting" /\ Len(calls) < MaxSeqCalls) =>
            \A session_id \in SessionIds \ {calls[c].sid} : ENABLED AcceptOn(session_id)

----------------------------------------------------------------------------
\* C12: a session's turn sequence only grows: at every step its length does
\* not decrease and the turns it had keep their role and content, so the
\* history before the step is a prefix of the history after it.
IsPrefix(a, b) == Len(a) <= Len(b) /\ SubSeq(b, 1, Len(a)) = a

C12_HistoryOnlyGrows ==
    [][\A session_id \in SessionIds :
          /\ Present(session_id) => Present(session_id)'
          /\ IsPrefix(Turns(session_id), Turns(session_id)')]_vars

----------------------------------------------------------------------------
\* the turn sequences of a store, by role and content
View(store) ==
    [sid \in DOMAIN store |-> [i \in 1..Len(store[sid]) |-> heap[store[sid][i]]]]

TurnsIn(store, session_id) ==
    IF session_id \in DOMAIN store THEN View(store)[session_id] ELSE << >>

\* C13: add_message(session_id, role, content) creates the session when it
\* is absent and extends it otherwise: afterwards the session's turns are
\* its turns before (none if absent) followed by the one turn {role,
\* content}, and every other session is as it was.
C13_AppendExtends ==
    op.name = "add_message" =>
        /\ DOMAIN sessions = DOMAIN op.before \cup {op.sid}
        /\ Turns(op.sid) = Append(TurnsIn(op.before, op.sid),
                                  [role |-> op.role, content |-> op.content])
        /\ \A sid \in DOMAIN sessions \ {op.sid} : sessions[sid] = op.before[sid]

C13_Witness ==
    /\ op.name = "add_message"
    /\ op.sid \notin DOMAIN op.before
    /\ \E ref \in DOMAIN log : log[ref].sid = op.sid /\ ~log[ref].stored
    /\ \E sid \in DOMAIN op.before : Len(op.before[sid]) >= 1

----------------------------------------------------------------------------
\* the turns handed to add_message for a session and not cleared since, in
\* the order of the calls
RECURSIVE AppendedTo(_, _)
AppendedTo(session_id, n) ==
    IF n = 0 THEN << >>
    ELSE IF log[n].sid = session_id /\ log[n].stored
    THEN Append(AppendedTo(session_id, n - 1),
                [role |-> log[n].role, content |-> log[n].content])
    ELSE AppendedTo(session_id, n - 1)

\* C14: get_messages(session_id) returns all the turns of the session in
\* the order they were appended, and the empty sequence for a session that
\* was never appended to or that was cleared.
C14_ReadAllInOrder ==
    op.name = "get_messages" =>
        /\ [i \in 1..Len(op.returned) |-> heap[op.returned[i]]]
               = AppendedTo(op.sid, Len(log))
        /\ (\A ref \in DOMAIN log : log[ref].sid = op.sid => ~log[ref].stored)
               => op.returned = << >>

C14_Witness ==
    /\ op.name = "get_messages"
    /\ Len(op.returned) >= 2
    /\ heap[op.returned[1]] # heap[op.returned[2]]
    /\ \E ref \in DOMAIN log : log[ref].sid = op.sid /\ ~log[ref].stored

----------------------------------------------------------------------------
\* C15: clear_session(session_id) removes the session: afterwards the
\* identifier is not a key of the store and the other sessions are as they
\* were; on an absent session it changes nothing; a second clear leaves the
\* store as the first left it.
C15_ClearIdempotent ==
    op.name = "clear_session" =>
        /\ op.sid \notin DOMAIN sessions
        /\ DOMAIN sessions = DOMAIN op.before \ {op.sid}
        /\ \A sid \in DOMAIN sessions : sessions[sid] = op.before[sid]
        /\ op.sid \notin DOMAIN op.before => sessions = op.before
        /\ clear_session(sessions, op.sid) = sessions

C15_Witness ==
    /\ op.name = "clear_session"
    /\ op.sid \in DOMAIN op.before
    /\ Len(op.before[op.sid]) >= 1
    /\ \E sid \in DOMAIN sessions : Len(sessions[sid]) >= 1

----------------------------------------------------------------------------
\* str.upper of one character; the upper case of the dotless i is I
UpperChar(c) ==
    CASE c = "a" -> "A" [] c = "b" -> "B" [] c = "c" -> "C" [] c = "d" -> "D"
      [] c = "e" -> "E" [] c = "f" -> "F" [] c = "g" -> "G" [] c = "h" -> "H"
      [] c = "i" -> "I" [] c = "j" -> "J" [] c = "k" -> "K" [] c = "l" -> "L"
      [] c = "m" -> "M" [] c = "n" -> "N" [] c = "o" -> "O" [] c = "p" -> "P"
      [] c = "q" -> "Q" [] c = "r" -> "R" [] c = "s" -> "S" [] c = "t" -> "T"
      [] c = "u" -> "U" [] c = "v" -> "V" [] c = "w" -> "W" [] c = "x" -> "X"
      [] c = "y" -> "Y" [] c = "z" -> "Z" [] c = DotlessI -> "I"
      [] OTHER -> c

\* the characters lo..hi of s, every step-th of them upper-cased
RECURSIVE UpperEvery(_, _, _, _)
UpperEvery(s, lo, hi, step) ==
    IF lo > hi THEN ""
    ELSE IF lo = hi
    THEN IF (lo - 1) % step = 0 THEN UpperChar(SubSeq(s, lo, lo)) ELSE SubSeq(s, lo, lo)
    ELSE LET mid == (lo + hi) \div 2
         IN  UpperEvery(s, lo, mid, step) \o UpperEvery(s, mid + 1, hi, step)

\* m with all its letters upper-cased, with every other letter upper-cased,
\* and with whitespace added at both ends
Variants(m) ==
    {UpperEvery(m, 1, Len(m), 1), UpperEvery(m, 1, Len(m), 2), "\t " \o m \o " \n"}

IsAscii(m) == \A i \in 1..Len(m) : SubSeq(m, i, i) # DotlessI

\* C16 as stated: for every message, match_intent returns the same entry for
\* the message, for the message with letters upper-cased and for the message
\* with whitespace added at its ends; "HOW MANY ASSETS" and
\* "  how many assets  " resolve to asset_count_total.
C16_CaseAndSpaceInsensitiveAll ==
    (matched # << >> /\ calls = << >>) =>
        /\ \A v \in Variants(query) : match_intent(v) = matched[1]
        /\ query = "HOW MANY ASSETS" =>
              /\ matched[1].intent = "asset_count_total"
              /\ match_intent("  how many assets  ").intent = "asset_count_total"

\* C16 as amended: the same, for every message of ASCII characters.
C16_CaseAndSpaceInsensitive ==
    (matched # << >> /\ calls = << >> /\ IsAscii(query)) =>
        /\ \A v \in Variants(query) : match_intent(v) = matched[1]
        /\ query = "HOW MANY ASSETS" =>
              /\ matched[1].intent = "asset_count_total"
              /\ match_intent("  how many assets  ").intent = "asset_count_total"

C16_Witness ==
    /\ matched # << >>
    /\ calls = << >>
    /\ IsAscii(query)
    /\ ~matched[1].none
    /\ query = Lower(query)
    /\ \A v \in Variants(query) : v # query /\ match_intent(v) = matched[1]

----------------------------------------------------------------------------
----------------------------------------------------------------------------
\* does text occur in s
Contains(s, text) ==
    \E i \in 1..(Len(s) - Len(text) + 1) : SubSeq(s, i, i + Len(text) - 1) = text

ContainsBoth(message) ==
    /\ Contains(Normalize(message), "assets by site")
    /\ Contains(Normalize(message), "assets by category")

\* C18 as stated: every message that contains both "assets by site" and
\* "assets by category" resolves to asset_count_by_site.
C18_BothResolveToBySiteAlways ==
    (matched # << >> /\ calls = << >> /\ ContainsBoth(query)) =>
        matched[1].intent = "asset_count_by_site"

\* C18 as amended: such a message resolves to asset_count_by_site, the
\* earlier declared of the two entries, unless a regex of the first entry,
\* asset_count_total, is found in it too; then it resolves to that entry.
\* It never resolves to assets_by_category.
C18_BothResolveToBySite ==
    (matched # << >> /\ calls = << >> /\ ContainsBoth(query)) =>
        /\ EntryMatches(1, Normalize(query)) => matched[1].intent = "asset_count_total"
        /\ ~EntryMatches(1, Normalize(query)) => matched[1].intent = "asset_count_by_site"
        /\ QueryPatterns[1].intent = "asset_count_total"
        /\ matched[1].intent # "assets_by_category"

C18_Witness ==
    /\ matched # << >>
    /\ calls = << >>
    /\ ContainsBoth(query)
    /\ ~EntryMatches(1, Normalize(query))
    /\ query # Normalize(query)
    /\ matched[1].intent = "asset_count_by_site"

----------------------------------------------------------------------------
\* the table entry a result of match_intent was taken from
EntryOf(intent_match) ==
    CHOOSE e \in 1..Len(QueryPatterns) : QueryPatterns[e].intent = intent_match.intent

\* C19: a call whose message matches a table entry and that returns status
\* ok returns that entry's SQL template as sql_query, character for
\* character.
C19_SqlVerbatim ==
    \A c \in DOMAIN calls :
        (Done(c) /\ calls[c].result.status = "ok" /\ ~calls[c].intent_match.none) =>
            /\ calls[c].intent_match = matched[1]
            /\ calls[c].result.sql_query = QueryPatterns[EntryOf(matched[1])].sql

C19_Witness ==
    \E c \in DOMAIN calls :
        /\ Done(c)
        /\ calls[c].result.status = "ok"
        /\ calls[c].intent_match.intent = "asset_count_by_site"
        /\ calls[c].message # Normalize(calls[c].message)
        /\ Contains(calls[c].result.sql_query, "\n")

----------------------------------------------------------------------------
\* s with every run of whitespace in lo..hi made one blank
RECURSIVE Squeeze(_, _, _)
Squeeze(s, lo, hi) ==
    IF lo > hi THEN ""
    ELSE IF lo = hi
    THEN IF ~IsSpace(SubSeq(s, lo, lo)) THEN SubSeq(s, lo, lo)
         ELSE IF lo > 1 /\ IsSpace(SubSeq(s, lo - 1, lo - 1)) THEN "" ELSE " "
    ELSE LET mid == (lo + hi) \div 2
         IN  Squeeze(s, lo, mid) \o Squeeze(s, mid + 1, hi)

UpToWhitespace(s) == Strip(Squeeze(s, 1, Len(s)))

OpenPOQuestion == "How many open purchase orders?"

\* C20: "How many open purchase orders?" resolves to open_purchase_orders,
\* no entry declared before that one matching it, and its SQL is, up to
\* whitespace, SELECT COUNT(*) AS OpenPOCount FROM PurchaseOrders WHERE
\* Status = 'Open';
C20_OpenPurchaseOrders ==
    (matched # << >> /\ calls = << >> /\ query = OpenPOQuestion) =>
        /\ matched[1].intent = "open_purchase_orders"
        /\ \A e \in 1..(EntryOf(matched[1]) - 1) : ~EntryMatches(e, Normalize(query))
        /\ UpToWhitespace(matched[1].sql) =
               "SELECT COUNT(*) AS OpenPOCount FROM PurchaseOrders WHERE Status = 'Open';"

C20_Witness ==
    /\ matched # << >>
    /\ calls # << >>
    /\ query = OpenPOQuestion
    /\ calls[1].intent_match.intent = "open_purchase_orders"
    /\ calls[1].result.status = "ok"
    /\ UpToWhitespace(calls[1].result.sql_query) # calls[1].result.sql_query

----------------------------------------------------------------------------
\* C21: when the completion call fails, the error that reaches
\* process_message carries the provider's message (it is "OpenAI API
\* error: " followed by that message), and the returned result has status
\* error and natural_language_answer "Error processing request: " followed
\* by the text of that error.
C21_ErrorCarriesCause ==
    \A c \in DOMAIN calls :
        (Done(c) /\ calls[c].completion.raised) =>
            /\ calls[c].result.status = "error"
            /\ calls[c].result.natural_language_answer =
                   "Error processing request: " \o calls[c].completion.error
            /\ calls[c].raw.kind = "raise" =>
                   calls[c].completion.error = "OpenAI API error: " \o calls[c].raw.cause

C21_Witness ==
    \E c \in DOMAIN calls :
        /\ Done(c)
        /\ calls[c].raw.kind = "raise"
        /\ calls[c].raw.cause = "Request timed out."
        /\ calls[c].result.natural_language_answer =
               "Error processing request: OpenAI API error: Request timed out."

----------------------------------------------------------------------------
\* C22: when OPENAI_API_KEY is unset or empty, constructing the service
\* raises the configuration error ("OPENAI_API_KEY environment variable is
\* required") and the service does not start: no process_message call
\* begins, nothing is stored and no request goes to the provider.
C22_NoKeyNoService ==
    (/\ chat_service.state # "importing"
     /\ chat_service.openai_service.api_key \in {PyNone, PyStr("")}) =>
        /\ chat_service.state = "failed"
        /\ chat_service.openai_service.raised
        /\ chat_service.openai_service.error =
               "OPENAI_API_KEY environment variable is required"
        /\ calls = << >>
        /\ sessions = << >>
        /\ ~ ENABLED Serve

C22_Witness ==
    /\ chat_service.state = "failed"
    /\ chat_service.openai_service.api_key = PyStr("")

----------------------------------------------------------------------------
\* C23: the prompt handed to the completion client is the system dict
\* followed by the turns of the session as they are at that moment: one
\* message with role "system", at position 1 of the sequence; as many other
\* messages as the session has turns, equal to them in order; the last one
\* is the user turn of this call, annotated iff the matcher matched; and no
\* session ever holds a turn with role "system".
C23_PromptIsSystemPlusHistory ==
    /\ \A sid \in DOMAIN sessions : \A i \in 1..Len(sessions[sid]) :
          heap[sessions[sid][i]].role # "system"
    /\ \A c \in DOMAIN calls :
          calls[c].pc = "waiting" =>
             LET prompt == calls[c].prompt
                 turns == get_messages(sessions, calls[c].sid)
             IN  /\ Len(prompt) = 1 + Len(turns)
                 /\ prompt[1] = [role |-> "system", content |-> PyStr(SYSTEM_PROMPT)]
                 /\ \A i \in 1..Len(turns) :
                       /\ prompt[i + 1] = heap[turns[i]]
                       /\ prompt[i + 1].role # "system"
                 /\ log[Last(turns)].call = c
                 /\ log[Last(turns)].role = "user"
                 /\ prompt[Len(prompt)].role = "user"
                 /\ prompt[Len(prompt)].content =
                       IF calls[c].intent_match.none
                       THEN PyStr(calls[c].message)
                       ELSE PyStr(enhanced_message(calls[c].message,
                                                   calls[c].intent_match))

\* a matched call and an unmatched call, each with earlier turns before it
C23_Witness ==
    /\ \E c \in DOMAIN calls :
          /\ calls[c].pc = "waiting"
          /\ ~ calls[c].intent_match.none
          /\ Len(calls[c].prompt) >= 4
    /\ \E c \in DOMAIN calls :
          /\ Done(c)
          /\ calls[c].intent_match.none
          /\ Len(calls[c].prompt) >= 3

----------------------------------------------------------------------------
\* C24: a process_message call invokes the completion client at most once,
\* exactly once by the time it has returned, also when the client raised
\* (the error result is returned, the request is not made again); and when
\* the client has been invoked the user turn of the call has already been
\* appended.
C24_AtMostOneRequest ==
    \A c \in DOMAIN calls :
        /\ calls[c].requests <= 1
        /\ calls[c].requests = 1 <=> calls[c].pc \in {"waiting", "done"}
        /\ (Done(c) /\ calls[c].completion.raised) =>
              /\ calls[c].requests = 1
              /\ calls[c].result.status = "error"
        /\ calls[c].requests >= 1 =>
              \E ref \in DOMAIN log :
                  /\ log[ref].call = c
                  /\ log[ref].role = "user"
                  /\ log[ref].content = PyStr(calls[c].message)

\* a call that has returned after the client raised, next to a call whose
\* request has not been made yet although its user turn is there
C24_Witness ==
    \E c, d \in DOMAIN calls :
        /\ Done(c)
        /\ calls[c].raw.kind = "raise"
        /\ calls[c].requests = 1
        /\ calls[d].pc = "ready"
        /\ calls[d].requests = 0

----------------------------------------------------------------------------
\* C25: every process_message call that has begun eventually returns a
\* ChatResponse (status ok or error), whatever the other calls do, given
\* that the request to the provider returns or raises within its timeout.
C25_EveryCallReturns ==
    \A c \in 1..MaxCalls :
        (c \in DOMAIN calls) ~>
            (/\ c \in DOMAIN calls
             /\ Done(c)
             /\ calls[c].result.status \in {"ok", "error"})

\* two calls suspended in the client at the same time
C25_Witness ==
    \E c, d \in DOMAIN calls :
        /\ c # d
        /\ calls[c].pc = "waiting"
        /\ calls[d].pc = "waiting"

----------------------------------------------------------------------------
\* C26: whenever the script's match_intent returns an intent other than
\* NO_MATCH for a message, SQLQueryMapper.match_intent returns that same
\* intent for it.
C26_ScriptAgreesWithMapper ==
    Len(matched) >= 1 =>
        LET intent == script_match_intent(query, build_query_patterns)
        IN  intent # "NO_MATCH" =>
               /\ ~ matched[1].none
               /\ matched[1].intent = intent

----------------------------------------------------------------------------
\* C27: get_messages leaves the store as it was, for a known, an unknown or
\* a cleared session id alike: the same session ids exist before and after
\* the call, with the same turns.
C27_ReadAllIsReadOnly ==
    op.name = "get_messages" =>
        /\ DOMAIN sessions = DOMAIN op.before
        /\ sessions = op.before

----------------------------------------------------------------------------
\* C28: a call that returns status "error" has appended no assistant turn,
\* whatever went wrong (the client raised, or the reply came but had no
\* text); every assistant turn was appended by a call that returns "ok".
C28_ErrorStoresNoAssistantTurn ==
    \A c \in DOMAIN calls :
        (Done(c) /\ calls[c].result.status = "error") =>
            \A ref \in DOMAIN log :
                ~ (log[ref].call = c /\ log[ref].role = "assistant")

----------------------------------------------------------------------------
\* C29: however the calls on a session interleave, the turn whose content a
\* call replaces with the annotated message is the user turn that this call
\* appended; the content of a user turn is always the raw or the annotated
\* message of the call that appended it; and the last message of the prompt
\* a call sends is made from its own message.
OwnContents(c) ==
    {PyStr(calls[c].message),
     PyStr(enhanced_message(calls[c].message, calls[c].intent_match))}

C29_AnnotatesOwnTurn ==
    /\ \A c \in DOMAIN calls :
          calls[c].pc \in {"built", "ready", "waiting", "done"} =>
              /\ log[Last(calls[c].messages)].call = c
              /\ log[Last(calls[c].messages)].role = "user"
    /\ \A c \in DOMAIN calls :
          calls[c].pc \in {"waiting", "done"} =>
              Last(calls[c].prompt).content \in OwnContents(c)
    /\ \A ref \in DOMAIN log :
          (log[ref].role = "user" /\ log[ref].call > 0) =>
              heap[ref].content \in OwnContents(log[ref].call)

----------------------------------------------------------------------------
\* C30: no regex of the table is dead; for the regex "how many assets.*by
\* site" of the entry asset_count_by_site: when it matches the message at
\* hand, there is among the messages one that this regex matches and that
\* match_intent resolves to asset_count_by_site.
C30_NoDeadRegex ==
    (/\ Len(matched) >= 1
     /\ ReSearch(QueryPatterns[2].patterns[1], Normalize(query))) =>
        \E message \in QueryMessages :
            /\ ReSearch(QueryPatterns[2].patterns[1], Normalize(message))
            /\ match_intent(message).intent = QueryPatterns[2].intent

============================================================================
